---- MODULE Spec2Model ----
(***************************************************************************)
(* Model of baseplate/integration/thrift/__init__.py:                      *)
(* BaseplateProcessorEventHandler, the Thrift processor event handler that *)
(* builds a RequestContext from the request headers, creates the server    *)
(* span and drives it through start / finish.                              *)
(*                                                                         *)
(* Conventions.  A byte string is a sequence of one-character strings      *)
(* ("0xFF" stands for the single byte 0xFF).  An optional value is a       *)
(* sequence of length 0 (Python None) or 1 (the value).  An exception is   *)
(* named by its class; "None" means that nothing was raised.               *)
(***************************************************************************)
EXTENDS Integers, Sequences, FiniteSets, TLC

(***************************************************************************)
(* Bounds of the model.                                                    *)
(***************************************************************************)
NumReqs == 2        \* request slots of the event handler
MaxCalls == 3       \* hook invocations on one context after getHandlerContext
MaxFallback == 1    \* fallback-named (B3-*) trace headers in one header map

Reqs == 1..NumReqs
Solo == {1}

None == <<>>
Some(v) == <<v>>

(***************************************************************************)
(* Header names and values.                                                *)
(***************************************************************************)
Fields == <<"trace_id", "span_id", "parent_span_id", "sampled", "flags">>

\* TRACE_HEADER_NAMES with the fallback names of span_id and parent_span_id
\* in each other's place
TRACE_HEADER_NAMES_swapped ==
    [f \in {Fields[i] : i \in 1..Len(Fields)} |->
        CASE f = "trace_id"       -> <<"Trace", "B3-TraceId">>
          [] f = "span_id"        -> <<"Span", "B3-ParentSpanId">>
          [] f = "parent_span_id" -> <<"Parent", "B3-SpanId">>
          [] f = "sampled"        -> <<"Sampled", "B3-Sampled">>
          [] f = "flags"          -> <<"Flags", "B3-Flags">>]

TRACE_HEADER_NAMES ==
    [f \in {Fields[i] : i \in 1..Len(Fields)} |->
        CASE f = "trace_id"       -> <<"Trace", "B3-TraceId">>
          [] f = "span_id"        -> <<"Span", "B3-SpanId">>
          [] f = "parent_span_id" -> <<"Parent", "B3-ParentSpanId">>
          [] f = "sampled"        -> <<"Sampled", "B3-Sampled">>
          [] f = "flags"          -> <<"Flags", "B3-Flags">>]

EdgeHeader == "Edge-Request"

CanonicalNames == {TRACE_HEADER_NAMES[f][1] : f \in DOMAIN TRACE_HEADER_NAMES}
FallbackNames == {TRACE_HEADER_NAMES[f][2] : f \in DOMAIN TRACE_HEADER_NAMES}

\* header values the checks draw from: two decimal integers, a text that is
\* not an integer, and a byte string that is not UTF-8
HeaderValues == {<<"1">>, <<"2", "0">>, <<"x">>, <<"0xFF">>}
EdgePayloads == {<<"e">>}

Digits == <<"0", "1", "2", "3", "4", "5", "6", "7", "8", "9">>
IsDigit(c) == \E i \in 1..10 : Digits[i] = c
DigitValue(c) == (CHOOSE i \in 1..10 : Digits[i] = c) - 1

RECURSIVE DecimalValue(_)
DecimalValue(ds) ==
    IF ds = <<>> THEN 0
    ELSE 10 * DecimalValue(SubSeq(ds, 1, Len(ds) - 1)) + DigitValue(ds[Len(ds)])

\* Python int(b): an optional sign followed by one or more decimal digits;
\* anything else raises ValueError (None here).
ParseInt(b) ==
    LET signed == b # <<>> /\ b[1] \in {"+", "-"}
        ds == IF signed THEN Tail(b) ELSE b
    IN  IF ds = <<>> \/ \E i \in 1..Len(ds) : ~IsDigit(ds[i])
        THEN None
        ELSE Some(IF signed /\ b[1] = "-" THEN 0 - DecimalValue(ds)
                  ELSE DecimalValue(ds))

\* b.decode("utf-8"): a lone 0xFF byte is never valid UTF-8
\* (UnicodeDecodeError); ASCII bytes decode to the same characters.
DecodeUtf8(b) ==
    IF \E i \in 1..Len(b) : b[i] = "0xFF" THEN None ELSE Some(b)

\* headers.get(name, None)
HeadersGet(headers, name) ==
    IF name \in DOMAIN headers THEN Some(headers[name]) ELSE None

(***************************************************************************)
(* Exceptions.                                                             *)
(***************************************************************************)
NoExc == "None"

\* UnicodeDecodeError is a subclass of ValueError
IsValueError(e) == e \in {"ValueError", "UnicodeDecodeError"}

\* Caught as "except KeyError" alone would have it
Caught_KeyErrorOnly(e) == e = "KeyError"

\* except (KeyError, ValueError)
Caught(e) == e = "KeyError" \/ IsValueError(e)

(***************************************************************************)
(* Header Codec.                                                           *)
(***************************************************************************)
\* TraceInfo.extract_upstream_header_values(names, headers): for each logical
\* field the value of the first candidate header name that is present; a
\* field none of whose names is present is left out of the result.
extract_upstream_header_values(names, headers) ==
    LET present(f) == {i \in 1..Len(names[f]) : names[f][i] \in DOMAIN headers}
        first(f) == CHOOSE i \in present(f) : \A j \in present(f) : i <= j
    IN  [f \in {g \in DOMAIN names : present(g) # {}} |->
            headers[names[f][first(f)]]]

\* TraceInfo.from_upstream(trace_id, parent_id, span_id, sampled, flags)
from_upstream(trace_id, parent_id, span_id, sampled, flags) ==
    [trace_id |-> trace_id, span_id |-> span_id, parent_span_id |-> parent_id,
     sampled |-> sampled, flags |-> flags]

Returned(v) == [exc |-> NoExc, value |-> Some(v)]
Raised(e) == [exc |-> e, value |-> None]

\* _get_trace_info with span_id and parent_span_id passed in each other's place
_get_trace_info_swapped(headers) ==
    LET extracted_values ==
            extract_upstream_header_values(TRACE_HEADER_NAMES, headers)
        has(f) == f \in DOMAIN extracted_values
        int(f) == ParseInt(extracted_values[f])
        flags == IF has("flags") THEN Some(extracted_values["flags"]) ELSE None
    IN  IF \E f \in {"trace_id", "parent_span_id", "span_id", "sampled"} : ~has(f)
        THEN Raised("KeyError")
        ELSE IF \/ \E f \in {"trace_id", "parent_span_id", "span_id"} : int(f) = None
                \/ DecodeUtf8(extracted_values["sampled"]) = None
                \/ flags # None /\ ParseInt(flags[1]) = None
        THEN Raised("ValueError")
        ELSE Returned(from_upstream(
                int("trace_id")[1],
                int("span_id")[1],
                int("parent_span_id")[1],
                DecodeUtf8(extracted_values["sampled"])[1] = <<"1">>,
                IF flags # None THEN ParseInt(flags[1]) ELSE None))

\* _get_trace_info(headers).  Python evaluates the arguments of from_upstream
\* left to right, so the first argument that fails decides the exception.
_get_trace_info(headers) ==
    LET extracted_values ==
            extract_upstream_header_values(TRACE_HEADER_NAMES, headers)
        has(f) == f \in DOMAIN extracted_values
        int(f) == ParseInt(extracted_values[f])
        flags == IF has("flags") THEN Some(extracted_values["flags"]) ELSE None
    IN  IF ~has("trace_id") THEN Raised("KeyError")
        ELSE IF int("trace_id") = None THEN Raised("ValueError")
        ELSE IF ~has("parent_span_id") THEN Raised("KeyError")
        ELSE IF int("parent_span_id") = None THEN Raised("ValueError")
        ELSE IF ~has("span_id") THEN Raised("KeyError")
        ELSE IF int("span_id") = None THEN Raised("ValueError")
        ELSE IF ~has("sampled") THEN Raised("KeyError")
        ELSE IF DecodeUtf8(extracted_values["sampled"]) = None
             THEN Raised("UnicodeDecodeError")
        ELSE IF flags # None /\ ParseInt(flags[1]) = None
             THEN Raised("ValueError")
        ELSE Returned(from_upstream(
                int("trace_id")[1],
                int("parent_span_id")[1],
                int("span_id")[1],
                DecodeUtf8(extracted_values["sampled"])[1] = <<"1">>,
                IF flags # None THEN ParseInt(flags[1]) ELSE None))

(***************************************************************************)
(* Collaborators: the span, the span-creation facility, the transport.     *)
(***************************************************************************)
NoSpan ==
    [name |-> "", trace_info |-> None, tags |-> {}, state |-> "none",
     starts |-> 0, finishes |-> <<>>, is_finished |-> FALSE]

\* baseplate.make_server_span(context, name, trace_info): a span in the
\* created state.  is_finished is the attribute handlerError sets on the span;
\* a span that does not have it reads as False (getattr(..., False)).
make_server_span(name, trace_info) ==
    [NoSpan EXCEPT !.name = name, !.trace_info = trace_info,
                   !.state = "created"]

\* trace.set_tag(key, value)
set_tag(s, key, value) == [s EXCEPT !.tags = @ \cup {<<key, value>>}]

\* trace.start()
SpanStart(s) == [s EXCEPT !.state = "started", !.starts = @ + 1]

\* trace.finish(exc_info): the outcome is "ok" without exc_info, else the
\* exception that exc_info carries
SpanFinish(s, outcome) ==
    [s EXCEPT !.state = "finished", !.finishes = Append(@, outcome)]

\* server_context.getPeerName()
PeerName == <<"10.0.0.1", "9090">>

(***************************************************************************)
(* State.  Every variable but edge_context_factory is a function of the    *)
(* request slot.                                                           *)
(***************************************************************************)
VARIABLES
    edge_context_factory,   \* self.edge_context_factory is set (TRUE) or None
    request,                \* the request the framework is processing
    ctx,                    \* the RequestContext getHandlerContext returned
    span,                   \* the span make_server_span returned
    calls,                  \* hooks the framework has invoked, in order
    effects,                \* collaborator calls the hooks made, in order
    edge_calls,             \* calls of edge_context_factory.from_upstream
    log,                    \* entries written to self.logger
    raised                  \* what the last hook raised to the framework

vars == <<edge_context_factory, request, ctx, span, calls, effects,
          edge_calls, log, raised>>

NoRequest == [fn_name |-> "", headers |-> <<>>, has_peer |-> FALSE]

\* RequestContext(): an object without attributes; attrs are those set so far
NoCtx ==
    [attrs |-> {}, headers |-> <<>>, trace |-> 0,
     raw_request_context |-> None, edge_context |-> None]

HasCtx(r) == "trace" \in ctx[r].attrs

(***************************************************************************)
(* getHandlerContext.                                                      *)
(***************************************************************************)
\* the try statement with trace_info lost when the decoder raises
TryBody_reset(factory, headers, decode) ==
    LET ti == _get_trace_info(headers)
        edge_payload == HeadersGet(headers, EdgeHeader)
        nothing == [exc |-> ti.exc, trace_info |-> None, attrs |-> {},
                    raw_request_context |-> None, edge_context |-> None,
                    edge_calls |-> <<>>, effects |-> <<>>]
    IN  IF ti.exc # NoExc THEN nothing
        ELSE IF factory THEN
            IF decode = NoExc
            THEN [nothing EXCEPT
                    !.trace_info = ti.value,
                    !.attrs = {"edge_context"},
                    !.edge_context = Some(edge_payload),
                    !.edge_calls = <<[payload |-> edge_payload, raised |-> NoExc]>>,
                    !.effects = <<"from_upstream", "attach_context">>]
            ELSE [nothing EXCEPT
                    !.exc = decode,
                    !.edge_calls = <<[payload |-> edge_payload, raised |-> decode]>>,
                    !.effects = <<"from_upstream">>]
        ELSE [nothing EXCEPT
                !.trace_info = ti.value,
                !.attrs = {"raw_request_context"},
                !.raw_request_context = edge_payload]

\* The body of the try statement (lines 68-77): what it assigned and called
\* before it completed or raised exc.  decode is what from_upstream does
\* when it is called: NoExc (it returns an edge context) or the exception
\* it raises.
TryBody(factory, headers, decode) ==
    LET ti == _get_trace_info(headers)
        edge_payload == HeadersGet(headers, EdgeHeader)
        nothing == [exc |-> ti.exc, trace_info |-> None, attrs |-> {},
                    raw_request_context |-> None, edge_context |-> None,
                    edge_calls |-> <<>>, effects |-> <<>>]
    IN  IF ti.exc # NoExc THEN nothing
        ELSE IF factory THEN
            IF decode = NoExc
            THEN [nothing EXCEPT
                    !.trace_info = ti.value,
                    !.attrs = {"edge_context"},
                    !.edge_context = Some(edge_payload),
                    !.edge_calls = <<[payload |-> edge_payload, raised |-> NoExc]>>,
                    !.effects = <<"from_upstream", "attach_context">>]
            ELSE [nothing EXCEPT
                    !.exc = decode,
                    !.trace_info = ti.value,
                    !.edge_calls = <<[payload |-> edge_payload, raised |-> decode]>>,
                    !.effects = <<"from_upstream">>]
        ELSE [nothing EXCEPT
                !.trace_info = ti.value,
                !.attrs = {"raw_request_context"},
                !.raw_request_context = edge_payload]

\* the peer tags with the port tag forgotten
TagPeer_address_only(trace, has_peer) ==
    IF has_peer THEN set_tag(trace, "peer.ipv4", PeerName[1]) ELSE trace

\* lines 87-94: the peer tags, when the transport has getPeerName
TagPeer(trace, has_peer) ==
    IF has_peer
    THEN set_tag(set_tag(trace, "peer.ipv4", PeerName[1]), "peer.port", PeerName[2])
    ELSE trace

GetHandlerContext(r, fn_name, headers, has_peer, decode) ==
    \E t \in {TryBody(edge_context_factory, headers, decode)} :
    LET propagates == t.exc # NoExc /\ ~Caught(t.exc)
        trace == TagPeer(make_server_span(fn_name, t.trace_info), has_peer)
    IN  /\ calls' = [calls EXCEPT ![r] = <<"getHandlerContext">>]
        /\ request' = [request EXCEPT ![r] =
                [fn_name |-> fn_name, headers |-> headers, has_peer |-> has_peer]]
        /\ edge_calls' = [edge_calls EXCEPT ![r] = t.edge_calls]
        /\ IF propagates
           THEN /\ raised' = [raised EXCEPT ![r] = t.exc]
                /\ effects' = [effects EXCEPT ![r] = t.effects]
                /\ UNCHANGED <<ctx, span>>
           ELSE /\ raised' = [raised EXCEPT ![r] = NoExc]
                /\ effects' = [effects EXCEPT ![r] =
                        t.effects \o <<"make_server_span">>
                        \o (IF has_peer THEN <<"set_tag", "set_tag">> ELSE <<>>)]
                /\ span' = [span EXCEPT ![r] = trace]
                /\ ctx' = [ctx EXCEPT ![r] =
                        [attrs |-> t.attrs \cup {"headers", "trace"},
                         headers |-> headers,
                         trace |-> r,
                         raw_request_context |-> t.raw_request_context,
                         edge_context |-> t.edge_context]]
        /\ UNCHANGED <<edge_context_factory, log>>

(***************************************************************************)
(* postRead, handlerDone, handlerError.  The framework passes the context  *)
(* getHandlerContext returned and the request's fn_name.                   *)
(***************************************************************************)
CanCall(r) == HasCtx(r) /\ Len(calls[r]) <= MaxCalls

\* postRead that writes the debug entry and does not start the span
PostRead_no_start(r) ==
    /\ CanCall(r)
    /\ calls' = [calls EXCEPT ![r] = Append(@, "postRead")]
    /\ log' = [log EXCEPT ![r] =
            Append(@, [level |-> "debug", fn_name |-> request[r].fn_name])]
    /\ effects' = [effects EXCEPT ![r] = Append(@, "debug")]
    /\ raised' = [raised EXCEPT ![r] = NoExc]
    /\ UNCHANGED <<edge_context_factory, request, ctx, span, edge_calls>>

PostRead(r) ==
    /\ CanCall(r)
    /\ calls' = [calls EXCEPT ![r] = Append(@, "postRead")]
    /\ log' = [log EXCEPT ![r] =
            Append(@, [level |-> "debug", fn_name |-> request[r].fn_name])]
    /\ span' = [span EXCEPT ![ctx[r].trace] = SpanStart(@)]
    /\ effects' = [effects EXCEPT ![r] = @ \o <<"debug", "start">>]
    /\ raised' = [raised EXCEPT ![r] = NoExc]
    /\ UNCHANGED <<edge_context_factory, request, ctx, edge_calls>>

\* handlerDone that never finishes the span
HandlerDone_no_finish(r) ==
    /\ CanCall(r)
    /\ calls' = [calls EXCEPT ![r] = Append(@, "handlerDone")]
    /\ raised' = [raised EXCEPT ![r] = NoExc]
    /\ UNCHANGED <<edge_context_factory, request, ctx, span, effects, edge_calls, log>>

\* handlerDone that finishes the span without looking at is_finished
HandlerDone_unguarded(r) ==
    /\ CanCall(r)
    /\ calls' = [calls EXCEPT ![r] = Append(@, "handlerDone")]
    /\ span' = [span EXCEPT ![ctx[r].trace] = SpanFinish(@, "ok")]
    /\ effects' = [effects EXCEPT ![r] = Append(@, "finish")]
    /\ raised' = [raised EXCEPT ![r] = NoExc]
    /\ UNCHANGED <<edge_context_factory, request, ctx, edge_calls, log>>

\* handlerDone that works on the first request's span, as a handler that
\* kept the span on itself rather than on the context would
HandlerDone_first_span(r) ==
    /\ CanCall(r)
    /\ calls' = [calls EXCEPT ![r] = Append(@, "handlerDone")]
    /\ IF ~span[1].is_finished
       THEN /\ span' = [span EXCEPT ![1] = SpanFinish(@, "ok")]
            /\ effects' = [effects EXCEPT ![r] = Append(@, "finish")]
       ELSE UNCHANGED <<span, effects>>
    /\ raised' = [raised EXCEPT ![r] = NoExc]
    /\ UNCHANGED <<edge_context_factory, request, ctx, edge_calls, log>>

\* handlerDone that also sets is_finished
HandlerDone_sets_flag(r) ==
    /\ CanCall(r)
    /\ calls' = [calls EXCEPT ![r] = Append(@, "handlerDone")]
    /\ IF ~span[ctx[r].trace].is_finished
       THEN /\ span' = [span EXCEPT ![ctx[r].trace] =
                    [SpanFinish(@, "ok") EXCEPT !.is_finished = TRUE]]
            /\ effects' = [effects EXCEPT ![r] = Append(@, "finish")]
       ELSE UNCHANGED <<span, effects>>
    /\ raised' = [raised EXCEPT ![r] = NoExc]
    /\ UNCHANGED <<edge_context_factory, request, ctx, edge_calls, log>>

HandlerDone(r) ==
    /\ CanCall(r)
    /\ calls' = [calls EXCEPT ![r] = Append(@, "handlerDone")]
    /\ IF ~span[ctx[r].trace].is_finished
       THEN /\ span' = [span EXCEPT ![ctx[r].trace] = SpanFinish(@, "ok")]
            /\ effects' = [effects EXCEPT ![r] = Append(@, "finish")]
       ELSE UNCHANGED <<span, effects>>
    /\ raised' = [raised EXCEPT ![r] = NoExc]
    /\ UNCHANGED <<edge_context_factory, request, ctx, edge_calls, log>>

\* handlerError that leaves a span alone whose is_finished is set
HandlerError_guarded(r, exception) ==
    /\ CanCall(r)
    /\ calls' = [calls EXCEPT ![r] = Append(@, "handlerError")]
    /\ IF ~span[ctx[r].trace].is_finished
       THEN /\ span' = [span EXCEPT ![ctx[r].trace] =
                    [SpanFinish(@, exception) EXCEPT !.is_finished = TRUE]]
            /\ effects' = [effects EXCEPT ![r] =
                    @ \o <<"finish_exc_info", "set_is_finished", "exception">>]
       ELSE /\ effects' = [effects EXCEPT ![r] = Append(@, "exception")]
            /\ UNCHANGED span
    /\ log' = [log EXCEPT ![r] =
            Append(@, [level |-> "error", fn_name |-> request[r].fn_name])]
    /\ raised' = [raised EXCEPT ![r] = NoExc]
    /\ UNCHANGED <<edge_context_factory, request, ctx, edge_calls>>

\* handlerError that sets is_finished on the context, not on the span
HandlerError_flag_on_context(r, exception) ==
    /\ CanCall(r)
    /\ calls' = [calls EXCEPT ![r] = Append(@, "handlerError")]
    /\ span' = [span EXCEPT ![ctx[r].trace] = SpanFinish(@, exception)]
    /\ ctx' = [ctx EXCEPT ![r].attrs = @ \cup {"is_finished"}]
    /\ log' = [log EXCEPT ![r] =
            Append(@, [level |-> "error", fn_name |-> request[r].fn_name])]
    /\ effects' = [effects EXCEPT ![r] =
            @ \o <<"finish_exc_info", "set_is_finished", "exception">>]
    /\ raised' = [raised EXCEPT ![r] = NoExc]
    /\ UNCHANGED <<edge_context_factory, request, edge_calls>>

\* exception is the handler's exception, which is also what sys.exc_info()
\* returns while the framework's except clause runs the hook
HandlerError(r, exception) ==
    /\ CanCall(r)
    /\ calls' = [calls EXCEPT ![r] = Append(@, "handlerError")]
    /\ span' = [span EXCEPT ![ctx[r].trace] =
            [SpanFinish(@, exception) EXCEPT !.is_finished = TRUE]]
    /\ log' = [log EXCEPT ![r] =
            Append(@, [level |-> "error", fn_name |-> request[r].fn_name])]
    /\ effects' = [effects EXCEPT ![r] =
            @ \o <<"finish_exc_info", "set_is_finished", "exception">>]
    /\ raised' = [raised EXCEPT ![r] = NoExc]
    /\ UNCHANGED <<edge_context_factory, request, ctx, edge_calls>>

(***************************************************************************)
(* Inputs.                                                                 *)
(***************************************************************************)
FnNames == {"ping", "is_healthy"}
HandlerExceptions == {"RuntimeError"}
\* what the edge context decoder does: it returns, or raises one of these
DecodeOutcomes == {NoExc, "KeyError", "ValueError", "TypeError"}

MapsOver(names, values) == UNION {[S -> values] : S \in SUBSET names}
Merge(f, g) == [n \in DOMAIN f \cup DOMAIN g |-> IF n \in DOMAIN f THEN f[n] ELSE g[n]]

EdgeMaps == MapsOver({EdgeHeader}, EdgePayloads)
CanonicalHeaders == {Merge(t, e) : t \in MapsOver(CanonicalNames, HeaderValues), e \in EdgeMaps}

ValidTrace == [n \in {"Trace", "Span", "Parent", "Sampled"} |->
    CASE n = "Trace" -> <<"2", "0">> [] n = "Span" -> <<"1">>
      [] n = "Parent" -> <<"2", "0">> [] n = "Sampled" -> <<"1">>]
NoSampled == [n \in {"Trace", "Span", "Parent"} |-> ValidTrace[n]]
BadSpan == [ValidTrace EXCEPT !["Span"] = <<"x">>]
SampleHeaders == {Merge(t, e) : t \in {<<>>, ValidTrace, NoSampled, BadSpan}, e \in EdgeMaps}

(***************************************************************************)
(* Specifications.                                                         *)
(***************************************************************************)
Init ==
    /\ edge_context_factory \in BOOLEAN
    /\ request = [r \in Reqs |-> NoRequest]
    /\ ctx = [r \in Reqs |-> NoCtx]
    /\ span = [r \in Reqs |-> NoSpan]
    /\ calls = [r \in Reqs |-> <<>>]
    /\ effects = [r \in Reqs |-> <<>>]
    /\ edge_calls = [r \in Reqs |-> <<>>]
    /\ log = [r \in Reqs |-> <<>>]
    /\ raised = [r \in Reqs |-> NoExc]

\* Spec: one request, the hooks in any order.  The framework calls
\* getHandlerContext once per request, before any other hook.
Begin(r) ==
    /\ calls[r] = <<>>
    /\ \E fn_name \in FnNames, headers \in SampleHeaders, has_peer \in BOOLEAN,
       decode \in DecodeOutcomes :
        GetHandlerContext(r, fn_name, headers, has_peer, decode)

Throw(r) == \E exception \in HandlerExceptions : HandlerError(r, exception)

Next ==
    \E r \in Solo : Begin(r) \/ PostRead(r) \/ HandlerDone(r) \/ Throw(r)

Spec == Init /\ [][Next]_vars

\* CtxSpec: context creation alone, over every header map with canonical
\* names and every behaviour of the collaborators.
BeginAny(r) ==
    /\ calls[r] = <<>>
    /\ \E fn_name \in FnNames, headers \in CanonicalHeaders, has_peer \in BOOLEAN,
       decode \in DecodeOutcomes :
        GetHandlerContext(r, fn_name, headers, has_peer, decode)

NextCtx == \E r \in Solo : BeginAny(r)

CtxSpec == Init /\ [][NextCtx]_vars

\* CodecSpec: the header codec over header maps that also use the fallback
\* names (at most k of them in one map); there is no edge context factory
\* and the transport has no peer name.
FallbackMaps(k) ==
    {f \in MapsOver(FallbackNames, HeaderValues) : Cardinality(DOMAIN f) <= k}
CodecHeaders(k) ==
    {Merge(t, f) : t \in MapsOver(CanonicalNames, HeaderValues), f \in FallbackMaps(k)}

InitCodec == Init /\ ~edge_context_factory

BeginCodec(r) ==
    /\ calls[r] = <<>>
    /\ \E headers \in CodecHeaders(MaxFallback) :
        GetHandlerContext(r, "ping", headers, FALSE, NoExc)

NextCodec == \E r \in Solo : BeginCodec(r)

CodecSpec == InitCodec /\ [][NextCodec]_vars

\* NamesSpec: the header codec over every header map that gives some of the
\* ten trace header names, canonical and fallback, a decimal value.
DecimalValues == {<<"1">>, <<"2", "0">>}
NamedHeaders == MapsOver(CanonicalNames \cup FallbackNames, DecimalValues)

BeginNamed(r) ==
    /\ calls[r] = <<>>
    /\ \E headers \in NamedHeaders :
        GetHandlerContext(r, "ping", headers, FALSE, NoExc)

NextNames == \E r \in Solo : BeginNamed(r)

NamesSpec == InitCodec /\ [][NextNames]_vars

\* ConcSpec: every request slot is a request in progress; the framework
\* keeps its hook order within a request and interleaves the requests'
\* hooks in any way.
ConcHeaders == {<<>>, ValidTrace}

BeginConc(r) ==
    /\ calls[r] = <<>>
    /\ \E fn_name \in FnNames, headers \in ConcHeaders, has_peer \in BOOLEAN :
        GetHandlerContext(r, fn_name, headers, has_peer, NoExc)

ConcPostRead(r) == calls[r] = <<"getHandlerContext">> /\ PostRead(r)
ConcHandlerDone(r) ==
    calls[r] = <<"getHandlerContext", "postRead">> /\ HandlerDone(r)
ConcHandlerError(r) ==
    calls[r] = <<"getHandlerContext", "postRead">> /\ Throw(r)

NextConc ==
    \E r \in Reqs :
        BeginConc(r) \/ ConcPostRead(r) \/ ConcHandlerDone(r) \/ ConcHandlerError(r)

ConcSpec == Init /\ [][NextConc]_vars

\* FairSpec: one request under the framework's contract.  The generated
\* processor calls getHandlerContext, then postRead, runs the handler and
\* calls handlerDone if it returned or handlerError if it raised; it does
\* not stop between the hooks.
FwPostRead(r) == calls[r] = <<"getHandlerContext">> /\ PostRead(r)
FwHandlerDone(r) == calls[r] = <<"getHandlerContext", "postRead">> /\ HandlerDone(r)
FwHandlerError(r) == calls[r] = <<"getHandlerContext", "postRead">> /\ Throw(r)

NextFw ==
    \E r \in Solo :
        Begin(r) \/ FwPostRead(r) \/ FwHandlerDone(r) \/ FwHandlerError(r)

FairSpec ==
    /\ Init
    /\ [][NextFw]_vars
    /\ \A r \in Solo :
        /\ WF_vars(FwPostRead(r))
        /\ WF_vars(FwHandlerDone(r) \/ FwHandlerError(r))

(***************************************************************************)
(* Properties.                                                             *)
(***************************************************************************)
LastOf(q) == q[Len(q)]
CountOf(q, x) == Cardinality({i \in 1..Len(q) : q[i] = x})
Called(r) == calls[r] # <<>>
Returned_ctx(r) == Called(r) /\ raised[r] = NoExc

\* C1: on a request for which the framework calls getHandlerContext, then
\* postRead, then exactly one of handlerDone and handlerError, the span is
\* created, then started, then finished; finish is called exactly once,
\* without exc_info after handlerDone and with the handler's exception after
\* handlerError; and every span that was created is eventually finished.
C1_FinishedExactlyOnce ==
    /\ [](\A r \in Solo :
            /\ (calls[r] = <<"getHandlerContext">> /\ HasCtx(r)) =>
                    /\ span[r].state = "created"
                    /\ span[r].starts = 0 /\ span[r].finishes = <<>>
            /\ calls[r] = <<"getHandlerContext", "postRead">> =>
                    /\ span[r].state = "started"
                    /\ span[r].starts = 1 /\ span[r].finishes = <<>>
            /\ calls[r] = <<"getHandlerContext", "postRead", "handlerDone">> =>
                    /\ span[r].state = "finished"
                    /\ span[r].starts = 1 /\ span[r].finishes = <<"ok">>
            /\ calls[r] = <<"getHandlerContext", "postRead", "handlerError">> =>
                    /\ span[r].state = "finished"
                    /\ span[r].starts = 1 /\ Len(span[r].finishes) = 1
                    /\ span[r].finishes[1] \in HandlerExceptions)
    /\ \A r \in Solo : HasCtx(r) ~> (span[r].state = "finished")

C1_Witness ==
    /\ calls[1] = <<"getHandlerContext", "postRead", "handlerError">>
    /\ span[1].state = "finished"
    /\ span[1].finishes = <<"RuntimeError">>

\* C2: once the span has been finished through handlerDone, no later
\* handlerDone or handlerError calls finish again or changes the outcome:
\* the span's finish calls remain the single successful one.
C2_FinishAtMostOnce ==
    \A r \in Reqs :
        (span[r].finishes # <<>> /\ span[r].finishes[1] = "ok") =>
            span[r].finishes = <<"ok">>

\* what a header value must be for the claims to call it a decimal integer,
\* and the integer it denotes
IsDecimal(v) == v # <<>> /\ \A i \in 1..Len(v) : IsDigit(v[i])
Denotes(v) == IF v = <<"1">> THEN 1 ELSE IF v = <<"2", "0">> THEN 20 ELSE -1
DecoderFailed(r) == edge_calls[r] # <<>> /\ edge_calls[r][1].raised # NoExc

\* C3: whatever the trace headers are (present or absent, decimal or
\* malformed), getHandlerContext raises nothing on their account: an
\* exception it raises is the one the edge context decoder raised, and
\* otherwise it returns a context whose trace is the span make_server_span
\* returned (called once) and whose headers are the request's headers.
C3_TraceMetadataNeverRaises ==
    \A r \in Solo : Called(r) =>
        /\ _get_trace_info(request[r].headers).exc # NoExc => raised[r] = NoExc
        /\ raised[r] # NoExc =>
                edge_calls[r] # <<>> /\ edge_calls[r][1].raised = raised[r]
        /\ raised[r] = NoExc =>
                /\ {"trace", "headers"} \subseteq ctx[r].attrs
                /\ ctx[r].trace = r /\ span[r].state = "created"
                /\ CountOf(effects[r], "make_server_span") = 1
                /\ ctx[r].headers = request[r].headers

C3_Witness ==
    /\ Called(1) /\ HasCtx(1)
    /\ _get_trace_info(request[1].headers).exc = "UnicodeDecodeError"
    /\ "Flags" \notin DOMAIN ctx[1].headers
    /\ EdgeHeader \in DOMAIN ctx[1].headers

\* C4: getHandlerContext calls make_server_span exactly once, with fn_name
\* as the name, and with a trace_info that is None exactly when a mandatory
\* header (Trace, Span, Parent, Sampled) is absent or a present integer
\* header (Trace, Span, Parent, Flags) is not a decimal integer.
C4_TraceInfoCompleteOrNone ==
    \A r \in Solo : Returned_ctx(r) =>
        LET h == request[r].headers
        IN  /\ CountOf(effects[r], "make_server_span") = 1
            /\ span[r].name = request[r].fn_name
            /\ span[r].trace_info = None <=>
                \/ \E n \in {"Trace", "Span", "Parent", "Sampled"} : n \notin DOMAIN h
                \/ \E n \in {"Trace", "Span", "Parent", "Flags"} :
                        n \in DOMAIN h /\ ~IsDecimal(h[n])

\* C5: without an edge_context_factory, the context getHandlerContext
\* returns has raw_request_context set to the Edge-Request header's value,
\* or to None when the header is absent, whatever the other headers are.
C5_RawPayloadAttached ==
    \A r \in Solo : (~edge_context_factory /\ Returned_ctx(r)) =>
        /\ "raw_request_context" \in ctx[r].attrs
        /\ ctx[r].raw_request_context = HeadersGet(request[r].headers, EdgeHeader)

\* C6: with an edge_context_factory whose from_upstream does not fail,
\* getHandlerContext calls it exactly once with the Edge-Request payload
\* (None when the header is absent) and attaches the edge context it
\* returned to the context, whatever the other headers are.
C6_DecoderInvokedOnce ==
    \A r \in Solo : (edge_context_factory /\ Returned_ctx(r) /\ ~DecoderFailed(r)) =>
        /\ Len(edge_calls[r]) = 1
        /\ edge_calls[r][1].payload = HeadersGet(request[r].headers, EdgeHeader)
        /\ "edge_context" \in ctx[r].attrs
        /\ ctx[r].edge_context = Some(HeadersGet(request[r].headers, EdgeHeader))

\* C7: when the edge context decoder raises, getHandlerContext raises that
\* exception to its caller if and only if an Edge-Request payload was
\* present; otherwise it swallows it and returns a context with a span.
C7_DecoderFailurePropagation ==
    \A r \in Solo : (Called(r) /\ DecoderFailed(r)) =>
        /\ raised[r] = edge_calls[r][1].raised <=> edge_calls[r][1].payload # None
        /\ raised[r] = NoExc => HasCtx(r) /\ span[r].state = "created"

\* C8: every handlerError, whatever is_finished was, calls finish with the
\* exception, then sets is_finished, then writes one error-level log entry
\* naming the operation, and returns normally; error-level log entries are
\* written by handlerError only, one per invocation.
C8_HandlerErrorAlwaysFinishes ==
    \A r \in Reqs :
        /\ (Called(r) /\ LastOf(calls[r]) = "handlerError") =>
                /\ Len(effects[r]) >= 3
                /\ SubSeq(effects[r], Len(effects[r]) - 2, Len(effects[r]))
                        = <<"finish_exc_info", "set_is_finished", "exception">>
                /\ span[r].state = "finished"
                /\ LastOf(span[r].finishes) \in HandlerExceptions
                /\ span[r].is_finished
                /\ LastOf(log[r]) = [level |-> "error", fn_name |-> request[r].fn_name]
                /\ raised[r] = NoExc
        /\ Cardinality({i \in 1..Len(log[r]) : log[r][i].level = "error"})
                = CountOf(calls[r], "handlerError")
        /\ Cardinality({i \in 1..Len(span[r].finishes) : span[r].finishes[i] # "ok"})
                = CountOf(calls[r], "handlerError")

C8_Witness ==
    /\ calls[1] = <<"getHandlerContext", "handlerError", "postRead", "handlerError">>
    /\ span[1].finishes = <<"RuntimeError", "RuntimeError">>
    /\ request[1].fn_name = "is_healthy"

\* C9: after handlerDone returns, the span is finished and its completion
\* flag is_finished is set.
C9_HandlerDoneSetsFlag ==
    \A r \in Reqs : (Called(r) /\ LastOf(calls[r]) = "handlerDone") =>
        span[r].state = "finished" /\ span[r].is_finished

\* C10: when Trace, Span, Parent and Sampled hold valid values (decimal
\* integers, and a text for Sampled) and Flags holds a decimal integer or no
\* flags header is present, the trace_info given to make_server_span has
\* trace_id from Trace, span_id from Span, parent_span_id from Parent,
\* sampled true exactly for "1", and flags from Flags or None.
C10_CanonicalRoundTrip ==
    \A r \in Solo : Called(r) =>
        LET h == request[r].headers
        IN  ( /\ {"Trace", "Span", "Parent", "Sampled"} \subseteq DOMAIN h
              /\ \A n \in {"Trace", "Span", "Parent"} : IsDecimal(h[n])
              /\ h["Sampled"] # <<"0xFF">>
              /\ IF "Flags" \in DOMAIN h THEN IsDecimal(h["Flags"])
                 ELSE "B3-Flags" \notin DOMAIN h )
            => span[r].trace_info = Some(
                    [trace_id |-> Denotes(h["Trace"]),
                     span_id |-> Denotes(h["Span"]),
                     parent_span_id |-> Denotes(h["Parent"]),
                     sampled |-> (h["Sampled"] = <<"1">>),
                     flags |-> IF "Flags" \in DOMAIN h
                               THEN Some(Denotes(h["Flags"])) ELSE None])

C10_Witness ==
    /\ Called(1)
    /\ DOMAIN request[1].headers = {"Trace", "Span", "Parent", "Sampled"}
    /\ span[1].trace_info = Some(
            [trace_id |-> 1, span_id |-> 20, parent_span_id |-> 1,
             sampled |-> TRUE, flags |-> None])


\* the header value a field takes: that of its canonical name when present,
\* else that of its fallback name
FirstPresent(h, canonical, fallback) ==
    IF canonical \in DOMAIN h THEN h[canonical] ELSE h[fallback]
\* the same values under the canonical names only
Canonicalized(h) ==
    LET pairs == {<<"Trace", "B3-TraceId">>, <<"Span", "B3-SpanId">>,
                  <<"Parent", "B3-ParentSpanId">>, <<"Sampled", "B3-Sampled">>,
                  <<"Flags", "B3-Flags">>}
        given == {p \in pairs : p[1] \in DOMAIN h \/ p[2] \in DOMAIN h}
    IN  [n \in {p[1] : p \in given} |->
            FirstPresent(h, n, (CHOOSE p \in given : p[1] = n)[2])]

\* C11: a header set that supplies the fields under the fallback names
\* (B3-TraceId, B3-SpanId, B3-ParentSpanId, B3-Sampled, B3-Flags) gives the
\* descriptor that the same values give under the canonical names; for each
\* field the first name of its candidate list that is present is the one
\* used.
C11_FallbackNamesEquivalent ==
    \A r \in Solo : Called(r) =>
        LET h == request[r].headers
            supplied(p) == p[1] \in DOMAIN h \/ p[2] \in DOMAIN h
        IN  (\A p \in {<<"Trace", "B3-TraceId">>, <<"Span", "B3-SpanId">>,
                       <<"Parent", "B3-ParentSpanId">>,
                       <<"Sampled", "B3-Sampled">>} : supplied(p))
            => /\ span[r].trace_info = Some(
                    [trace_id |-> Denotes(FirstPresent(h, "Trace", "B3-TraceId")),
                     span_id |-> Denotes(FirstPresent(h, "Span", "B3-SpanId")),
                     parent_span_id |->
                        Denotes(FirstPresent(h, "Parent", "B3-ParentSpanId")),
                     sampled |-> (FirstPresent(h, "Sampled", "B3-Sampled") = <<"1">>),
                     flags |-> IF supplied(<<"Flags", "B3-Flags">>)
                               THEN Some(Denotes(FirstPresent(h, "Flags", "B3-Flags")))
                               ELSE None])
               /\ span[r].trace_info = _get_trace_info(Canonicalized(h)).value

C11_Witness ==
    /\ Called(1)
    /\ DOMAIN request[1].headers =
            {"B3-TraceId", "B3-SpanId", "B3-ParentSpanId", "B3-Sampled", "B3-Flags"}
    /\ span[1].trace_info = Some(
            [trace_id |-> 20, span_id |-> 1, parent_span_id |-> 20,
             sampled |-> FALSE, flags |-> Some(1)])

\* C12: when the Sampled header is present and Trace, Span and Parent (and
\* Flags, if present) are decimal integers, a descriptor is produced, and
\* its sampled field is true exactly when the Sampled value is "1".
C12_SampledIffOne ==
    \A r \in Solo : Returned_ctx(r) =>
        LET h == request[r].headers
        IN  ( /\ {"Trace", "Span", "Parent", "Sampled"} \subseteq DOMAIN h
              /\ \A n \in {"Trace", "Span", "Parent"} : IsDecimal(h[n])
              /\ "Flags" \in DOMAIN h => IsDecimal(h["Flags"]) )
            => /\ span[r].trace_info # None
               /\ span[r].trace_info[1].sampled = (h["Sampled"] = <<"1">>)


PeerTags == {<<"peer.ipv4", PeerName[1]>>, <<"peer.port", PeerName[2]>>}

\* C13: when the transport has no getPeerName, getHandlerContext raises
\* nothing on that account and the span has no peer tag; when it has, the
\* span has the peer address tag and the peer port tag; a span never has
\* one of the two without the other.
C13_PeerTagsBothOrNeither ==
    \A r \in Reqs :
        /\ span[r].tags \in {{}, PeerTags}
        /\ Called(r) =>
            /\ raised[r] # NoExc => DecoderFailed(r)
            /\ HasCtx(r) =>
                span[r].tags = IF request[r].has_peer THEN PeerTags ELSE {}

C13_Witness ==
    /\ calls[1] = <<"getHandlerContext", "postRead">>
    /\ ~request[1].has_peer
    /\ span[1].tags = {}
    /\ span[1].state = "started"

\* C14: a handlerDone that comes after handlerError on the same context does
\* not call finish: the span, its finish calls and their outcomes stay as
\* they were.
C14_DoneAfterErrorIsNoop ==
    [][\A r \in Reqs :
        ( /\ CountOf(calls[r], "handlerError") > 0
          /\ calls'[r] = Append(calls[r], "handlerDone") )
        => span'[r] = span[r] /\ effects'[r] = effects[r]]_vars

C14_Witness ==
    /\ calls[1] = <<"getHandlerContext", "postRead", "handlerError", "handlerDone">>
    /\ span[1].finishes = <<"RuntimeError">>
    /\ span[1].is_finished

\* C15: the span is started by postRead alone, once per postRead:
\* getHandlerContext leaves it created (not started, not finished,
\* is_finished unset), and handlerDone and handlerError do not start it.
C15_StartOnlyInPostRead ==
    \A r \in Reqs :
        /\ span[r].starts = CountOf(calls[r], "postRead")
        /\ CountOf(effects[r], "start") = CountOf(calls[r], "postRead")
        /\ (calls[r] = <<"getHandlerContext">> /\ HasCtx(r)) =>
                /\ span[r].state = "created"
                /\ span[r].starts = 0 /\ span[r].finishes = <<>>
                /\ ~span[r].is_finished

C15_Witness ==
    /\ calls[1] = <<"getHandlerContext", "handlerDone", "postRead", "postRead">>
    /\ span[1].starts = 2


\* C16: with several requests in progress on one event handler, a hook
\* called with one request's context changes that request's span, flag and
\* context only, under every interleaving; and each request whose terminal
\* hook has run has had its span finished exactly once.
C16_RequestsIsolated ==
    /\ [][\A r \in Reqs : calls'[r] # calls[r] =>
            \A q \in Reqs \ {r} :
                /\ span'[q] = span[q] /\ ctx'[q] = ctx[q]
                /\ calls'[q] = calls[q] /\ effects'[q] = effects[q]
                /\ request'[q] = request[q]]_vars
    /\ [](\A r \in Reqs :
            /\ HasCtx(r) => ctx[r].trace = r /\ span[r].name = request[r].fn_name
            /\ Len(calls[r]) = 3 =>
                /\ Len(span[r].finishes) = 1
                /\ span[r].finishes[1] = "ok" <=> LastOf(calls[r]) = "handlerDone")

C16_Witness ==
    /\ calls[1] = <<"getHandlerContext", "postRead", "handlerDone">>
    /\ calls[2] = <<"getHandlerContext", "postRead", "handlerError">>
    /\ span[1].finishes = <<"ok">> /\ ~span[1].is_finished
    /\ span[2].finishes = <<"RuntimeError">> /\ span[2].is_finished
    /\ request[1].fn_name # request[2].fn_name


\* C17: postRead, handlerDone and handlerError leave the context as
\* getHandlerContext returned it (headers, trace, edge context or raw
\* payload, and the set of attributes) and leave the span's name, trace_info
\* and tags; of the context and its span they change nothing but the
\* span's lifecycle and is_finished.
C17_HooksLeaveContext ==
    [][\A r \in Reqs : (Called(r) /\ calls'[r] # calls[r]) =>
            /\ ctx'[r] = ctx[r]
            /\ request'[r] = request[r]
            /\ edge_calls'[r] = edge_calls[r]
            /\ span'[r].name = span[r].name
            /\ span'[r].trace_info = span[r].trace_info
            /\ span'[r].tags = span[r].tags]_vars

C17_Witness ==
    /\ calls[1] = <<"getHandlerContext", "postRead", "handlerDone", "handlerError">>
    /\ ctx[1].attrs = {"headers", "trace", "raw_request_context"}
    /\ ctx[1].raw_request_context = Some(<<"e">>)
    /\ EdgeHeader \in DOMAIN ctx[1].headers

\* C18: when the trace headers decode and the edge context decoder then
\* raises an exception that getHandlerContext swallows, make_server_span is
\* still called with the decoded descriptor as trace_info.
C18_DescriptorKeptOnDecoderFailure ==
    \A r \in Solo : (Called(r) /\ DecoderFailed(r) /\ raised[r] = NoExc) =>
        LET h == request[r].headers
        IN  /\ HasCtx(r)
            /\ CountOf(effects[r], "make_server_span") = 1
            /\ span[r].trace_info = Some(
                    [trace_id |-> Denotes(h["Trace"]),
                     span_id |-> Denotes(h["Span"]),
                     parent_span_id |-> Denotes(h["Parent"]),
                     sampled |-> (h["Sampled"] = <<"1">>),
                     flags |-> IF "Flags" \in DOMAIN h
                               THEN Some(Denotes(h["Flags"])) ELSE None])

C18_Witness ==
    /\ Called(1) /\ HasCtx(1)
    /\ edge_calls[1] = <<[payload |-> Some(<<"e">>), raised |-> "KeyError"]>>
    /\ span[1].trace_info = Some(
            [trace_id |-> 20, span_id |-> 1, parent_span_id |-> 1,
             sampled |-> FALSE, flags |-> Some(20)])

\* C19: a span's is_finished is true only if handlerError has been called
\* on its context and the span has a finish call with an error outcome;
\* getHandlerContext, postRead and handlerDone never set it, and once true
\* it stays true.
C19_FlagOnlyByHandlerError ==
    /\ [](\A r \in Reqs : span[r].is_finished =>
            /\ CountOf(calls[r], "handlerError") > 0
            /\ \E i \in 1..Len(span[r].finishes) :
                    span[r].finishes[i] \in HandlerExceptions)
    /\ [][\A r \in Reqs :
            /\ span[r].is_finished => span'[r].is_finished
            /\ (~span[r].is_finished /\ span'[r].is_finished) =>
                    calls'[r] = Append(calls[r], "handlerError")]_vars

C19_Witness ==
    /\ calls[1] = <<"getHandlerContext", "handlerDone", "handlerError", "postRead">>
    /\ span[1].is_finished
    /\ span[1].finishes = <<"ok", "RuntimeError">>

====
